---- MODULE Spec2Model ----
(***************************************************************************)
(* ApiHelper (js/utils/apiHelper.js): HTTP request with retry, timeout,    *)
(* response decoding and a time-bounded response cache.                    *)
(*                                                                         *)
(* One logical call (ApiHelper.get or ApiHelper.cachedGet) is followed     *)
(* through its suspension points: the wait for fetch(), the wait for the   *)
(* response body, and the backoff sleep.  The network, the timers, the     *)
(* clock and the caller (configure) are the environment.  The caller       *)
(* issues its calls one at a time and configures between them; all cached  *)
(* requests of the model share one cache key.                              *)
(*                                                                         *)
(* Specifications:                                                         *)
(*   Spec        get and cachedGet with retry, timeout and the cache       *)
(*   HeaderSpec  get/post/put/delete with headers, configure with headers  *)
(*   CacheSpec   cache.set / cache.get / cache.clear used directly         *)
(*   ParseSpec   parseResponse applied to a response                       *)
(*   UploadSpec  uploadFile with and without a progress callback           *)
(*   QuerySpec   buildQueryString applied to a params object               *)
(***************************************************************************)
EXTENDS Integers, Sequences, FiniteSets, TLC

\* ------------------------------------------------------------------ bounds
MaxRetry == 4      \* largest retryAttempts the caller configures
MaxNow   == 2      \* clock horizon (Date.now() ranges over 0..MaxNow)
MaxTtl   == 1      \* largest ttl passed to cachedGet
ShortDelay == 100  \* the retryDelay the caller configures besides the default
MaxEvents == 3     \* most progress events of one upload that reach onProgress
MaxParams == 3     \* most keys of a params object given to buildQueryString

\* ------------------------------------------------- program constants
DefaultRetryAttempts == 3
DefaultRetryDelay    == 1000
DefaultTimeout       == 30000
DefaultErrorStatus   == 500
TimeoutStatus        == 408

\* ------------------------------------------------------------ payloads
\* A decoded value.  kind: "null" | "number" | "object" | "string" | "blob".
Payload(kind, num, str) == [kind |-> kind, num |-> num, str |-> str]
NullPayload == Payload("null", 0, "")

\* JavaScript truthiness of a decoded value, as tested by `if (cached)`.
Truthy(p) ==
  CASE p.kind = "null"   -> FALSE
    [] p.kind = "number" -> p.num # 0
    [] p.kind = "string" -> p.str # ""
    [] OTHER             -> TRUE

\* Raw response bodies the remote side may send.
Bodies == {"{\"price\":42}", "0", "oops"}
NoBody == "<pending>"

\* JSON.parse / response.json(): defined on well-formed texts only.
JsonValid(body) == body \in {"{\"price\":42}", "0"}
JsonParse(body) ==
  CASE body = "{\"price\":42}" -> Payload("object", 0, "price=42")
    [] body = "0"              -> Payload("number", 0, "")
    [] OTHER                   -> NullPayload

\* ------------------------------------------------------------- errors
Error(name, message, status, data) ==
  [name |-> name, message |-> message, status |-> status, data |-> data]
NoError == Error("", "", 0, NullPayload)

\* class ApiError: constructor(message, status = 500, data = null)
ApiError(message, status, data) == Error("ApiError", message, status, data)
\* rejection of fetch() on a connection failure
NetworkFailure == Error("TypeError", "Failed to fetch", 0, NullPayload)
\* rejection of fetch() after controller.abort()
AbortError == Error("AbortError", "The operation was aborted", 0, NullPayload)
\* rejection of response.json() on a malformed body
SyntaxError == Error("SyntaxError", "Unexpected token", 0, NullPayload)
\* rejection of response.text() once response.json() has consumed the body
BodyUsedError == Error("TypeError", "body stream already read", 0, NullPayload)

\* ------------------------------------------------------------ responses
Statuses == {200, 404, 503}
CTypes   == {"application/json", "text/plain", "image/png", ""}
Resp(status, ctype, body) == [status |-> status, ctype |-> ctype, body |-> body]
NoResp == Resp(0, "", NoBody)

\* Response.ok
Ok(status) == status >= 200 /\ status <= 299

\* A function outcome: a returned value or a thrown error.
Returned(p) == [tag |-> "ok",  data |-> p,           error |-> NoError]
Thrown(e)   == [tag |-> "err", data |-> NullPayload, error |-> e]
NoResult    == [tag |-> "none", data |-> NullPayload, error |-> NoError]

\* ------------------------------------------------------------ strings
\* A string is compared as a whole where the code compares it as a whole; where
\* the code searches it, it is the sequence of its pieces.
\* String.prototype.startsWith
StartsWith(key, str) ==
  Len(str) <= Len(key) /\ SubSeq(key, 1, Len(str)) = str
\* String.prototype.includes
Includes(key, str) ==
  \E i \in 0..(Len(key) - Len(str)) : SubSeq(key, i + 1, i + Len(str)) = str

\* The content-type header values the remote side may send, as the pieces
\* parseResponse searches for, followed by the rest of the value.
Pieces(ctype) ==
  CASE ctype = "application/json"                -> <<"application/json">>
    [] ctype = "application/json; charset=utf-8" -> <<"application/json", "; charset=utf-8">>
    [] ctype = "text/plain"                      -> <<"text/", "plain">>
    [] ctype = "text/html; charset=utf-8"        -> <<"text/", "html", "; charset=utf-8">>
    [] ctype = "text/csv"                        -> <<"text/", "csv">>
    [] ctype = "image/png"                       -> <<"image/", "png">>
    [] ctype = "image/svg+xml"                   -> <<"image/", "svg+xml">>
    [] ctype = "application/octet-stream"        -> <<"application/octet-stream">>
    [] ctype = "application/xml"                 -> <<"application/xml">>
    [] OTHER                                     -> <<>>

\* (mutant) parseResponse without the `application/octet-stream` test
ParseResponseNoOctetStream(ctype, body) ==
  IF Includes(Pieces(ctype), <<"application/json">>)
  THEN IF JsonValid(body) THEN Returned(JsonParse(body)) ELSE Thrown(SyntaxError)
  ELSE IF Includes(Pieces(ctype), <<"text/">>)
  THEN Returned(Payload("string", 0, body))
  ELSE IF Includes(Pieces(ctype), <<"image/">>)
  THEN Returned(Payload("blob", 0, body))
  ELSE IF JsonValid(body) THEN Returned(JsonParse(body)) ELSE Thrown(BodyUsedError)

\* (mutant) parseResponse that returns the raw text whatever the content type
ParseResponseAsText(ctype, body) == Returned(Payload("string", 0, body))

\* ApiHelper.parseResponse, once the body has arrived.
ParseResponse(ctype, body) ==
  IF Includes(Pieces(ctype), <<"application/json">>)
  THEN IF JsonValid(body) THEN Returned(JsonParse(body)) ELSE Thrown(SyntaxError)
  ELSE IF Includes(Pieces(ctype), <<"text/">>)
  THEN Returned(Payload("string", 0, body))
  ELSE IF Includes(Pieces(ctype), <<"image/">>)
          \/ Includes(Pieces(ctype), <<"application/octet-stream">>)
  THEN Returned(Payload("blob", 0, body))
  ELSE IF JsonValid(body) THEN Returned(JsonParse(body)) ELSE Thrown(BodyUsedError)

\* ApiHelper.parseErrorResponse, once the body has arrived.
ParseErrorResponse(body) ==
  IF JsonValid(body) THEN Returned(JsonParse(body)) ELSE Thrown(BodyUsedError)

\* ------------------------------------------------------- configuration
\* the retryDelay the caller configures together with retryAttempts = n
DelayFor(n) == IF n % 2 = 0 THEN ShortDelay ELSE DefaultRetryDelay

\* A header map: header name -> value, on the names present.
NoHeaders == <<>>
DefaultHeaders == [h \in {"Content-Type"} |-> "application/json"]

DefaultConfig ==
  [baseUrl |-> "", timeout |-> DefaultTimeout,
   retryAttempts |-> DefaultRetryAttempts, retryDelay |-> DefaultRetryDelay,
   headers |-> DefaultHeaders]

\* { ...this.config, ...options }
Merge(cfg, options) ==
  [k \in DOMAIN cfg \cup DOMAIN options |->
     IF k \in DOMAIN options THEN options[k] ELSE cfg[k]]

ConfigOptions ==
  {[retryAttempts |-> n, retryDelay |-> DelayFor(n)] : n \in 0..MaxRetry}

\* The options of one call that carry no headers.
NoOptions == [method |-> "GET"]

\* `headers: { ...this.config.headers, ...options.headers }`
RequestHeaders(cfg, options) ==
  Merge(cfg.headers, IF "headers" \in DOMAIN options THEN options.headers ELSE NoHeaders)

\* ------------------------------------------------------ query and cache
Value(t, s) == [t |-> t, s |-> s, a |-> <<>>]
ArrayValue(a) == [t |-> "arr", s |-> "", a |-> a]
Param(name, value) == [name |-> name, value |-> value]

\* (mutant) `if (value)` in place of the three comparisons
RECURSIVE BuildQueryStringTruthy(_)
BuildQueryStringTruthy(params) ==
  IF params = <<>> THEN <<>>
  ELSE LET p    == Head(params)
           rest == BuildQueryStringTruthy(Tail(params))
       IN IF p.value.t \in {"null", "undefined"}
             \/ (p.value.t = "str" /\ p.value.s = "")
             \/ (p.value.t = "num" /\ p.value.s = "0")
             \/ (p.value.t = "bool" /\ p.value.s = "false")
          THEN rest
          ELSE IF p.value.t = "arr"
          THEN [i \in 1..Len(p.value.a) |-> <<p.name, p.value.a[i]>>] \o rest
          ELSE <<<<p.name, p.value.s>>>> \o rest

\* buildQueryString(params): the entries appended to searchParams, in order.
\* params is Object.entries(params): the keys in iteration order.
RECURSIVE BuildQueryString(_)
BuildQueryString(params) ==
  IF params = <<>> THEN <<>>
  ELSE LET p    == Head(params)
           rest == BuildQueryString(Tail(params))
       IN IF p.value.t \in {"null", "undefined"} \/ (p.value.t = "str" /\ p.value.s = "")
          THEN rest
          ELSE IF p.value.t = "arr"
          THEN [i \in 1..Len(p.value.a) |-> <<p.name, p.value.a[i]>>] \o rest
          ELSE <<<<p.name, p.value.s>>>> \o rest

Urls == {"/api/prices"}
ParamChoices ==
  { <<Param("crop", Value("str", "wheat"))>>,
    <<Param("crop", Value("str", "wheat")), Param("state", Value("null", ""))>> }
Ttls == 1..MaxTtl

\* `${url}?${this.buildQueryString(params)}`
CacheKey(url, params) == <<url, BuildQueryString(params)>>

Entry(data, expiry) == [data |-> data, expiry |-> expiry]

\* (mutant) `if (Date.now() >= cached.expiry)`
CacheGetExpiresEarly(st, key, t) ==
  IF key \notin DOMAIN st
  THEN [ret |-> NullPayload, store |-> st]
  ELSE IF t >= st[key].expiry
  THEN [ret |-> NullPayload, store |-> [k \in DOMAIN st \ {key} |-> st[k]]]
  ELSE [ret |-> st[key].data, store |-> st]

\* cache.get(key) on store st at time t: the value returned and the store left.
CacheGet(st, key, t) ==
  IF key \notin DOMAIN st
  THEN [ret |-> NullPayload, store |-> st]
  ELSE IF t > st[key].expiry
  THEN [ret |-> NullPayload, store |-> [k \in DOMAIN st \ {key} |-> st[k]]]
  ELSE [ret |-> st[key].data, store |-> st]

\* cache.set(key, data, ttl) on store st at time t.
CacheSet(st, key, data, ttl, t) ==
  [k \in DOMAIN st \cup {key} |-> IF k = key THEN Entry(data, t + ttl) ELSE st[k]]

\* `if (cached)` in cachedGet
CacheHit(cached) == Truthy(cached)

\* Keys and prefixes given to the cache directly: strings, as their characters.
Keys == {<<"a">>, <<"a", "b">>, <<"b", "a">>}
\* The argument of cache.clear: not given (null), or a string.
Prefix(given, str) == [given |-> given, str |-> str]
Prefixes ==
  {Prefix(FALSE, <<>>), Prefix(TRUE, <<>>), Prefix(TRUE, <<"a">>),
   Prefix(TRUE, <<"a", "b">>), Prefix(TRUE, <<"b">>)}
\* Payloads stored directly.
Values == {Payload("object", 0, "price=42"), Payload("number", 0, "")}

\* The store with only the keys of ks.
Restrict(st, ks) == [k \in DOMAIN st \cap ks |-> st[k]]

\* (mutant) `if (key.includes(prefix))`
CacheClearIncludes(st, prefix) ==
  IF prefix.given /\ prefix.str # <<>>
  THEN Restrict(st, {k \in DOMAIN st : ~Includes(k, prefix.str)})
  ELSE <<>>

\* cache.clear(prefix) on store st: `if (prefix)` is false of null and of ''.
CacheClear(st, prefix) ==
  IF prefix.given /\ prefix.str # <<>>
  THEN Restrict(st, {k \in DOMAIN st : ~StartsWith(k, prefix.str)})
  ELSE <<>>

\* ------------------------------------------------- retry decisions
\* (mutant) `attempt < this.config.retryAttempts`
LoopCondOffByOne(cfg, a) == a < cfg.retryAttempts
\* `attempt <= this.config.retryAttempts`
LoopCond(cfg, a) == a <= cfg.retryAttempts
\* `error instanceof ApiError && error.status >= 400 && error.status < 500`
IsClientError(e) == e.name = "ApiError" /\ e.status >= 400 /\ e.status < 500
\* (mutant) `error.name === 'TimeoutError'`
IsAbortWrongName(e) == e.name = "TimeoutError"
\* `error.name === 'AbortError'`
IsAbort(e) == e.name = "AbortError"
\* `attempt < this.config.retryAttempts`
ShouldSleep(cfg, a) == a < cfg.retryAttempts
\* (mutant) `this.config.retryDelay * 2 ** (attempt - 1)`
BackoffDelayExponential(cfg, a) == cfg.retryDelay * 2 ^ (a - 1)
\* `this.config.retryDelay * attempt`
BackoffDelay(cfg, a) == cfg.retryDelay * a
\* (mutant) `lastError = lastError || error`
NextLastErrorKeepFirst(old, e) == IF old = NoError THEN e ELSE old
\* `lastError = error`
NextLastError(old, e) == e
\* `throw lastError || new ApiError('Request failed after retries')`
FinalError(le) ==
  IF le = NoError THEN ApiError("Request failed after retries", DefaultErrorStatus, NullPayload)
  ELSE le

\* ------------------------------------------------------------- state
VARIABLES
  config,      \* ApiHelper.config
  store,       \* ApiHelper.cache.store: key -> entry, on the keys present
  now,         \* Date.now()
  kind,        \* the call under way: "none" | "get" | "cachedGet"
  cacheKey,    \* cachedGet: cacheKey
  ttl,         \* cachedGet: ttl
  pc,          \* where the call is suspended
  attempt,     \* request: loop variable
  lastError,   \* request: lastError
  resp,        \* request: the response of the current attempt
  armed,       \* the timeout timer of the pending fetch is armed
  stale,       \* a timer of an attempt that has ended is still armed
  inflight,    \* attempts whose network exchange has not ended
  result,      \* what the call returned or threw
  \* history, for the properties only
  fetches,     \* fetch() invocations of this call
  sleeps,      \* arguments of this.delay() in this call, in order
  retryableOnly, \* every failed attempt of this call was a server or network error
  thrown,      \* the error the latest attempt of this call raised
  found,       \* cachedGet: the unexpired entry present at the call, if any
  storeAtCall, \* the cache store as the call found it
  headers,     \* request: config.headers, the headers every attempt carries
  \* the cache used directly
  cacheOp,     \* the latest cache.get / cache.set / cache.clear and its outcome
  lastSet,     \* per key, the arguments and the time of the set that wrote it
  \* buildQueryString used directly
  query,       \* the parameters given and the entries produced
  \* uploadFile
  server,      \* what the remote side does with an upload
  xhr,         \* the upload with a progress callback (uploadWithProgress)
  plain        \* the upload without one (the fetch of uploadFile)

up == <<server, xhr, plain>>

VARIABLES
  \* StorageUtils
  localStorage, \* window.localStorage: key -> text, on the keys present
  lsOp,         \* the latest StorageUtils operation and its outcome
  lsSet,        \* per key, the arguments of the local.set that last returned true
  recent,       \* the search terms added, distinct, latest first, cut as asked
  \* UIUtils.modal
  modals,       \* the alert dialogs shown, in order
  \* calls of cachedGet that overlap
  calls,        \* per call, its locals
  race,         \* the calls that have ended, in the order they ended
  origin        \* per cache key, the request whose payload the entry holds

side == <<localStorage, lsOp, lsSet, recent, modals, calls, race, origin>>

\* what the request machinery leaves alone
ext == <<cacheOp, lastSet, query, up, side>>

vars == <<config, store, now, kind, cacheKey, ttl, pc, attempt, lastError,
          resp, armed, stale, inflight, result, fetches, sleeps, retryableOnly,
          thrown, found, storeAtCall, headers, ext>>

NoKey == <<"", <<>>>>
NoFound == [hit |-> FALSE, data |-> NullPayload]
NoOp == [name |-> "none"]
NoQuery == [params |-> <<>>, out |-> <<>>, built |-> FALSE]
NoServer == [does |-> "nothing", status |-> 0, ctype |-> "", body |-> NoBody]
NoXhr == [pc |-> "unsent", total |-> 0, computable |-> FALSE, loaded |-> 0,
          progress |-> <<>>, settles |-> 0, outcome |-> NoResult, late |-> FALSE]
NoPlain == [pc |-> "unsent", outcome |-> NoResult]

\* The calls that may be under way together.
Slots == 1..2

\* `url.startsWith('http') ? url : `${this.config.baseUrl}${url}``, as the
\* base and the rest.
UrlPieces(url) ==
  CASE url = "" -> <<>>
    [] url = "https://api.openweathermap.org/data/2.5/weather" ->
         <<"http", "s://api.openweathermap.org/data/2.5/weather">>
    [] OTHER -> <<url>>
FullUrl(cfg, url) ==
  IF StartsWith(UrlPieces(url), <<"http">>) THEN [base |-> "", rest |-> url]
  ELSE [base |-> cfg.baseUrl, rest |-> url]

\* The locals of a call that has not started, and for the properties: the
\* resolved url, the configuration at the start, the delay of each timer it
\* armed, whether it started while another call for its key was under way,
\* whether cache.clear removed the entry of its key while it was under way and
\* no call made since has written it, and the resolved url of the request
\* whose payload the cache served it.
NoCall ==
  [store |-> <<>>, kind |-> "none", cacheKey |-> NoKey, ttl |-> 0,
   pc |-> "idle", attempt |-> 0, lastError |-> NoError, resp |-> NoResp,
   armed |-> FALSE, stale |-> FALSE, inflight |-> {}, result |-> NoResult,
   fetches |-> 0, sleeps |-> <<>>, retryableOnly |-> TRUE, thrown |-> NoError,
   found |-> NoFound, storeAtCall |-> <<>>, headers |-> NoHeaders,
   fullUrl |-> FullUrl(DefaultConfig, ""), atStart |-> DefaultConfig,
   timeouts |-> <<>>, overlapped |-> FALSE, overClear |-> FALSE,
   servedFrom |-> FullUrl(DefaultConfig, "")]

InitApi ==
  /\ config = DefaultConfig
  /\ store = <<>>
  /\ now = 0
  /\ kind = "none"
  /\ cacheKey = NoKey
  /\ ttl = 0
  /\ pc = "idle"
  /\ attempt = 0
  /\ lastError = NoError
  /\ resp = NoResp
  /\ armed = FALSE
  /\ stale = FALSE
  /\ inflight = {}
  /\ result = NoResult
  /\ fetches = 0
  /\ sleeps = <<>>
  /\ retryableOnly = TRUE
  /\ thrown = NoError
  /\ found = NoFound
  /\ storeAtCall = <<>>
  /\ headers = NoHeaders
  /\ cacheOp = NoOp
  /\ lastSet = <<>>
  /\ xhr = NoXhr
  /\ plain = NoPlain
  /\ localStorage = <<>>
  /\ lsOp = NoOp
  /\ lsSet = <<>>
  /\ recent = <<>>
  /\ modals = <<>>
  /\ calls = [i \in Slots |-> NoCall]
  /\ race = <<>>
  /\ origin = <<>>

Init == InitApi /\ server = NoServer /\ query = NoQuery

\* --------------------------------------------------- the call's state
\* Everything a step of the call may change, as one record.
Cur ==
  [store |-> store, kind |-> kind, cacheKey |-> cacheKey,
   ttl |-> ttl, pc |-> pc, attempt |-> attempt, lastError |-> lastError,
   resp |-> resp, armed |-> armed, stale |-> stale, inflight |-> inflight,
   result |-> result, fetches |-> fetches, sleeps |-> sleeps,
   retryableOnly |-> retryableOnly, thrown |-> thrown, found |-> found,
   storeAtCall |-> storeAtCall, headers |-> headers]

Set(n) ==
  /\ store' = n.store /\ kind' = n.kind
  /\ cacheKey' = n.cacheKey /\ ttl' = n.ttl /\ pc' = n.pc
  /\ attempt' = n.attempt /\ lastError' = n.lastError /\ resp' = n.resp
  /\ armed' = n.armed /\ stale' = n.stale /\ inflight' = n.inflight
  /\ result' = n.result /\ fetches' = n.fetches /\ sleeps' = n.sleeps
  /\ retryableOnly' = n.retryableOnly /\ thrown' = n.thrown /\ found' = n.found
  /\ storeAtCall' = n.storeAtCall /\ headers' = n.headers

\* A new call: fresh locals; the cache, the armed timers and the network
\* are what the earlier calls left.
Fresh(k, key, t) ==
  [Cur EXCEPT !.kind = k, !.cacheKey = key, !.ttl = t,
              !.pc = "idle", !.attempt = 0, !.lastError = NoError,
              !.resp = NoResp, !.result = NoResult, !.fetches = 0,
              !.sleeps = <<>>, !.retryableOnly = TRUE, !.thrown = NoError,
              !.found = NoFound, !.storeAtCall = store,
              !.headers = NoHeaders]

\* (mutant) cache.set in a `finally`: it runs whether the await threw or not
StoreAfterGetAlways(st, key, res, t, time) == CacheSet(st, key, res.data, t, time)

\* (mutant) `if (!this.cache.store.has(cacheKey)) this.cache.set(...)`
StoreAfterGetKeepFirst(st, key, res, t, time) ==
  IF res.tag = "ok" /\ key \notin DOMAIN st THEN CacheSet(st, key, res.data, t, time) ELSE st

\* cachedGet after `await this.get(url, params)`: cache.set runs only when
\* the await did not throw.
StoreAfterGet(st, key, res, t, time) ==
  IF res.tag = "ok" THEN CacheSet(st, key, res.data, t, time) ELSE st

\* request() returns or throws res; cachedGet, when it is the caller, resumes.
Finish(cs, res) ==
  [cs EXCEPT !.pc = "done", !.result = res,
             !.store = IF cs.kind = "cachedGet"
                       THEN StoreAfterGet(cs.store, cs.cacheKey, res, cs.ttl, now)
                       ELSE @]

\* The for-loop test at attempt a, and the start of the attempt: arm the
\* timer, call fetch.  When the test fails: the throw after the loop.
Loop(cs, a) ==
  IF LoopCond(config, a)
  THEN [cs EXCEPT !.pc = "fetching", !.attempt = a, !.resp = NoResp,
                  !.armed = TRUE,
                  !.inflight = @ \cup {a},
                  !.fetches = @ + 1]
  ELSE Finish([cs EXCEPT !.attempt = a], Thrown(FinalError(cs.lastError)))

\* request(url, options) up to the first `await fetch`: the headers of the
\* call, then the loop from attempt 1.
Request(cs, options) ==
  Loop([cs EXCEPT !.headers = RequestHeaders(config, options)], 1)

\* Server errors and network failures: the failures the retry is meant for.
Retryable == {"server", "network"}

\* (mutant) the catch block with `this.delay(...)` not awaited: the next
\* attempt starts at once.
CatchDelayNotAwaited(cs, e, cls) ==
  LET c1 == [cs EXCEPT !.lastError = NextLastError(@, e), !.thrown = e,
                       !.retryableOnly = @ /\ cls \in Retryable]
  IN IF IsAbort(e)
     THEN Finish(c1, Thrown(ApiError("Request timeout", TimeoutStatus, NullPayload)))
     ELSE IF IsClientError(e)
     THEN Finish(c1, Thrown(e))
     ELSE IF ShouldSleep(config, c1.attempt)
     THEN Loop([c1 EXCEPT !.sleeps = Append(@, BackoffDelay(config, c1.attempt))],
               c1.attempt + 1)
     ELSE Loop(c1, c1.attempt + 1)

\* The catch block, entered with error e; cls is how the attempt ended.
Catch(cs, e, cls) ==
  LET c1 == [cs EXCEPT !.lastError = NextLastError(@, e), !.thrown = e,
                       !.retryableOnly = @ /\ cls \in Retryable]
  IN IF IsAbort(e)
     THEN Finish(c1, Thrown(ApiError("Request timeout", TimeoutStatus, NullPayload)))
     ELSE IF IsClientError(e)
     THEN Finish(c1, Thrown(e))
     ELSE IF ShouldSleep(config, c1.attempt)
     THEN [c1 EXCEPT !.pc = "sleeping",
                     !.sleeps = Append(@, BackoffDelay(config, c1.attempt))]
     ELSE Loop(c1, c1.attempt + 1)

\* How an attempt that received a non-2xx response ended.
ErrorClass(status) == IF status >= 400 /\ status <= 499 THEN "client" ELSE "server"

Idle == pc = "idle"

\* ------------------------------------------------------------ actions
\* ApiHelper.get(url, params): runs up to the first `await fetch`.
Get(url, params) ==
  /\ Idle
  /\ Set(Request(Fresh("get", NoKey, 0), NoOptions))
  /\ UNCHANGED <<config, now, ext>>

\* ApiHelper.cachedGet(url, params, ttl): the lookup, then the hit or the get.
CachedGet(url, params, t) ==
  /\ Idle
  /\ LET key == CacheKey(url, params)
         g   == CacheGet(store, key, now)
         f   == [Fresh("cachedGet", key, t) EXCEPT
                   !.store = g.store,
                   !.found = IF key \in DOMAIN store /\ now <= store[key].expiry
                             THEN [hit |-> TRUE, data |-> store[key].data]
                             ELSE NoFound]
     IN IF CacheHit(g.ret)
        THEN Set([f EXCEPT !.pc = "done", !.result = Returned(g.ret)])
        ELSE Set(Request(f, NoOptions))
  /\ UNCHANGED <<config, now, ext>>

\* fetch() resolves with the response head: clearTimeout, then the body is
\* awaited by parseErrorResponse (not ok) or parseResponse (ok).
FetchResolve(status, ctype) ==
  /\ pc = "fetching"
  /\ Set([Cur EXCEPT !.armed = FALSE,
                     !.resp = Resp(status, ctype, NoBody),
                     !.pc = IF Ok(status) THEN "body" ELSE "errbody"])
  /\ UNCHANGED <<config, now, ext>>

\* fetch() rejects: connection failure.  clearTimeout is not reached, the
\* timer of the attempt stays armed.
FetchReject ==
  /\ pc = "fetching"
  /\ Set(Catch([Cur EXCEPT !.inflight = @ \ {attempt}, !.armed = FALSE,
                           !.stale = @ \/ armed],
               NetworkFailure, "network"))
  /\ UNCHANGED <<config, now, ext>>

\* The timer of the pending fetch fires: controller.abort() rejects the fetch.
TimerFire ==
  /\ pc = "fetching" /\ armed
  /\ Set(Catch([Cur EXCEPT !.inflight = @ \ {attempt}, !.armed = FALSE],
               AbortError, "timeout"))
  /\ UNCHANGED <<config, now, ext>>

\* A timer of an attempt that has ended fires: abort() of a settled fetch
\* does nothing.  Other such timers may remain.
StaleTimerFire(more) ==
  /\ stale
  /\ stale' = more
  /\ UNCHANGED <<config, store, now, kind, cacheKey, ttl, pc, attempt, lastError,
                 resp, armed, inflight, result, fetches, sleeps, retryableOnly,
                 thrown, found, storeAtCall, headers, ext>>

\* The body of a 2xx response has arrived: parseResponse settles.
BodyArrive(body) ==
  /\ pc = "body"
  /\ LET r  == ParseResponse(resp.ctype, body)
         c0 == [Cur EXCEPT !.inflight = @ \ {attempt}, !.resp.body = body]
     IN IF r.tag = "ok"
        THEN Set(Finish(c0, r))
        ELSE Set(Catch(c0, r.error, "decode"))
  /\ UNCHANGED <<config, now, ext>>

\* The body of a non-2xx response has arrived: parseErrorResponse settles
\* and the ApiError is thrown, or parseErrorResponse itself throws.
ErrBodyArrive(body) ==
  /\ pc = "errbody"
  /\ LET d  == ParseErrorResponse(body)
         e  == IF d.tag = "ok" THEN ApiError("HTTP error", resp.status, d.data)
               ELSE d.error
         c0 == [Cur EXCEPT !.inflight = @ \ {attempt}, !.resp.body = body]
     IN Set(Catch(c0, e, ErrorClass(resp.status)))
  /\ UNCHANGED <<config, now, ext>>

\* The connection fails while the body is read.
BodyFail ==
  /\ pc \in {"body", "errbody"}
  /\ LET e == IF pc = "errbody" \/ resp.ctype = "" THEN BodyUsedError ELSE NetworkFailure
     IN Set(Catch([Cur EXCEPT !.inflight = @ \ {attempt}], e, "network"))
  /\ UNCHANGED <<config, now, ext>>

\* The backoff sleep ends: attempt++ and the loop test.
SleepEnd ==
  /\ pc = "sleeping"
  /\ Set(Loop(Cur, attempt + 1))
  /\ UNCHANGED <<config, now, ext>>

\* The caller has received what the call returned or threw; the locals of
\* the call are gone.
Return ==
  /\ pc = "done"
  /\ Set([Fresh("none", NoKey, 0) EXCEPT !.storeAtCall = <<>>])
  /\ UNCHANGED <<config, now, ext>>

\* ApiHelper.configure(options).
Configure(options) ==
  /\ config' = Merge(config, options)
  /\ UNCHANGED <<store, now, kind, cacheKey, ttl, pc, attempt, lastError,
                 resp, armed, stale, inflight, result, fetches, sleeps,
                 retryableOnly, thrown, found, storeAtCall, headers, ext>>

\* Time passes.
Tick ==
  /\ now < MaxNow
  /\ now' = now + 1
  /\ UNCHANGED <<config, store, kind, cacheKey, ttl, pc, attempt, lastError,
                 resp, armed, stale, inflight, result, fetches, sleeps,
                 retryableOnly, thrown, found, storeAtCall, headers, ext>>

\* ------------------------------------------------ the cache used directly
api == <<config, kind, cacheKey, ttl, pc, attempt, lastError, resp, armed,
         stale, inflight, result, fetches, sleeps, retryableOnly, thrown,
         found, storeAtCall, headers>>

\* cache.set(key, data, ttl)
CacheSetOp(key, data, t) ==
  /\ store' = CacheSet(store, key, data, t, now)
  /\ cacheOp' = [name |-> "set", key |-> key, at |-> now]
  /\ lastSet' = [k \in DOMAIN lastSet \cup {key} |->
                   IF k = key THEN [data |-> data, ttl |-> t, at |-> now]
                   ELSE lastSet[k]]
  /\ UNCHANGED <<api, now, query, up, side>>

\* cache.get(key)
CacheGetOp(key) ==
  /\ LET g == CacheGet(store, key, now)
     IN /\ store' = g.store
        /\ cacheOp' = [name |-> "get", key |-> key, at |-> now, ret |-> g.ret]
        /\ lastSet' = Restrict(lastSet, DOMAIN g.store)
  /\ UNCHANGED <<api, now, query, up, side>>

\* cache.clear(prefix)
CacheClearOp(prefix) ==
  /\ store' = CacheClear(store, prefix)
  /\ cacheOp' = [name |-> "clear", prefix |-> prefix,
                 removed |-> DOMAIN store \ DOMAIN store']
  /\ lastSet' = Restrict(lastSet, DOMAIN store')
  /\ UNCHANGED <<api, now, query, up, side>>

\* Time passes between the uses of the cache.
CacheTick ==
  /\ now < MaxNow
  /\ now' = now + 1
  /\ UNCHANGED <<api, store, ext>>

CacheNext ==
  \/ \E k \in Keys, v \in Values, t \in 0..MaxTtl : CacheSetOp(k, v, t)
  \/ \E k \in Keys : CacheGetOp(k)
  \/ \E p \in Prefixes : CacheClearOp(p)
  \/ CacheTick

CacheSpec == Init /\ [][CacheNext]_vars

\* ------------------------------------------- parseResponse used directly
\* The responses given to parseResponse.
ParseStatuses == {200, 201}
ParseCTypes ==
  CTypes \cup {"application/json; charset=utf-8", "text/html; charset=utf-8",
               "text/csv", "image/svg+xml", "application/octet-stream",
               "application/xml"}
ParseBodies == Bodies \cup {""}

callRest == <<config, store, now, kind, cacheKey, ttl, pc, attempt, lastError,
              armed, stale, inflight, fetches, sleeps, retryableOnly, thrown,
              found, storeAtCall, headers, ext>>

\* A response with its body is at hand.
Receive(status, ctype, body) ==
  /\ resp' = Resp(status, ctype, body)
  /\ result' = NoResult
  /\ UNCHANGED callRest

\* parseResponse(response) settles.
Parse ==
  /\ resp # NoResp /\ result = NoResult
  /\ result' = ParseResponse(resp.ctype, resp.body)
  /\ UNCHANGED <<resp, callRest>>

ParseNext ==
  \/ \E st \in ParseStatuses, ct \in ParseCTypes, b \in ParseBodies : Receive(st, ct, b)
  \/ Parse

ParseSpec == Init /\ [][ParseNext]_vars

\* ------------------------------------------------------------- uploads
\* What the remote side does with an upload: it responds, the connection
\* fails, or nothing comes back in time.
Servers ==
  {[does |-> "respond", status |-> st, ctype |-> ct, body |-> b] :
     st \in {200, 503}, ct \in {"application/json", "text/plain", ""}, b \in Bodies}
  \cup {[NoServer EXCEPT !.does = "fail"], [NoServer EXCEPT !.does = "hang"]}

\* Sizes of the request body, and the byte counts at which the browser
\* reports progress (0 stands for a length that is not computable).
Totals == {3, 8, 200}
Marks(total) ==
  CASE total = 3   -> {0, 1, 2, 3}
    [] total = 8   -> {0, 1, 7, 8}
    [] total = 200 -> {0, 29, 199, 200}
    [] OTHER       -> {0, 1}

\* Math.round of NaN or Infinity (a division by event.total = 0)
NotANumber == -1

\* The ratios loaded / total whose product with 100 is an exact half that the
\* double product falls just below.
FloatBelowHalf == {<<29, 200>>, <<57, 200>>, <<113, 200>>, <<115, 200>>}

\* (mutant) `Math.floor((event.loaded / event.total) * 100)`
PercentFloor(loaded, total) ==
  IF total = 0 THEN NotANumber ELSE (100 * loaded) \div total

\* `Math.round((event.loaded / event.total) * 100)`: the nearest integer, a
\* half rounded up.
Percent(loaded, total) ==
  IF total = 0 THEN NotANumber
  ELSE IF <<loaded, total>> \in FloatBelowHalf THEN (100 * loaded) \div total
  ELSE (200 * loaded + total) \div (2 * total)

ProgressEvent(computable, loaded, total) ==
  [lengthComputable |-> computable, loaded |-> loaded, total |-> total]

\* onProgress(value), called for event ev
CallOnProgress(x, ev, value) ==
  [x EXCEPT !.progress = Append(@, [loaded |-> ev.loaded, total |-> ev.total,
                                    value |-> value]),
            !.late = @ \/ x.settles > 0]

\* (mutant) the progress listener without `if (event.lengthComputable)`
OnUploadProgressUnguarded(x, ev) ==
  CallOnProgress(x, ev, Percent(ev.loaded, ev.total))

\* the listener of xhr.upload 'progress'
OnUploadProgress(x, ev) ==
  IF ev.lengthComputable
  THEN CallOnProgress(x, ev, Percent(ev.loaded, ev.total))
  ELSE x

\* resolve(value) / reject(error) of the promise of uploadWithProgress: the
\* first call settles it.
Settle(x, res) ==
  [x EXCEPT !.settles = @ + 1,
            !.outcome = IF @.tag = "none" THEN res ELSE @]

\* the listener of xhr 'load'
OnLoad(x, status, responseText) ==
  IF status >= 200 /\ status < 300
  THEN Settle(x, Returned(IF JsonValid(responseText) THEN JsonParse(responseText)
                          ELSE Payload("string", 0, responseText)))
  ELSE Settle(x, Thrown(ApiError("Upload failed", status, NullPayload)))

\* the listener of xhr 'error'
OnError(x) ==
  Settle(x, Thrown(ApiError("Network error during upload", DefaultErrorStatus, NullPayload)))

\* the listener of xhr 'timeout'
OnTimeout(x) ==
  Settle(x, Thrown(ApiError("Upload timeout", TimeoutStatus, NullPayload)))

\* uploadFile without a callback: what `await fetch`, the status test and
\* parseResponse give for the server's behaviour.
UploadFetchOutcome(sv) ==
  IF sv.does = "fail" THEN Thrown(NetworkFailure)
  ELSE IF ~Ok(sv.status) THEN Thrown(ApiError("Upload failed", sv.status, NullPayload))
  ELSE ParseResponse(sv.ctype, sv.body)

upRest == <<api, store, now, cacheOp, lastSet, query, server, side>>

\* uploadFile(url, file, additionalData, onProgress): with a callback the
\* XMLHttpRequest is opened and sent, without one fetch is called.
UploadFile(onProgress, size, computable) ==
  /\ IF onProgress
     THEN /\ xhr.pc = "unsent"
          /\ xhr' = [NoXhr EXCEPT !.pc = "uploading", !.computable = computable,
                                  !.total = IF computable THEN size ELSE 0]
          /\ UNCHANGED plain
     ELSE /\ plain.pc = "unsent"
          /\ plain' = [NoPlain EXCEPT !.pc = "fetching"]
          /\ UNCHANGED xhr
  /\ UNCHANGED upRest

\* The browser reports that `loaded` bytes of the body are sent.
XhrUploadProgress(loaded) ==
  /\ xhr.pc = "uploading"
  /\ loaded \in Marks(xhr.total) /\ loaded >= xhr.loaded
  /\ Len(xhr.progress) < MaxEvents
  /\ xhr' = OnUploadProgress([xhr EXCEPT !.loaded = loaded],
                             ProgressEvent(xhr.computable, loaded, xhr.total))
  /\ UNCHANGED <<upRest, plain>>

\* The body is sent; the response is awaited.
XhrUploadEnd ==
  /\ xhr.pc = "uploading"
  /\ xhr' = [xhr EXCEPT !.pc = "waiting"]
  /\ UNCHANGED <<upRest, plain>>

\* The response has arrived: 'load'.
XhrLoad ==
  /\ xhr.pc = "waiting" /\ server.does = "respond"
  /\ xhr' = OnLoad([xhr EXCEPT !.pc = "done"], server.status, server.body)
  /\ UNCHANGED <<upRest, plain>>

\* The connection has failed: 'error'.
XhrError ==
  /\ xhr.pc \in {"uploading", "waiting"} /\ server.does = "fail"
  /\ xhr' = OnError([xhr EXCEPT !.pc = "done"])
  /\ UNCHANGED <<upRest, plain>>

\* xhr.timeout has elapsed with the request not done: 'timeout'.
XhrTimeout ==
  /\ xhr.pc \in {"uploading", "waiting"} /\ server.does = "hang"
  /\ config.timeout > 0
  /\ xhr' = OnTimeout([xhr EXCEPT !.pc = "done"])
  /\ UNCHANGED <<upRest, plain>>

\* The fetch of uploadFile settles and uploadFile returns or throws.  With
\* no response it stays pending: this path sets no timeout.
UploadFetchSettle ==
  /\ plain.pc = "fetching" /\ server.does \in {"respond", "fail"}
  /\ plain' = [pc |-> "done", outcome |-> UploadFetchOutcome(server)]
  /\ UNCHANGED <<upRest, xhr>>

UploadInit == InitApi /\ server \in Servers /\ query = NoQuery

UploadNext ==
  \/ \E cb \in BOOLEAN, size \in Totals, c \in BOOLEAN : UploadFile(cb, size, c)
  \/ \E l \in 0..200 : XhrUploadProgress(l)
  \/ XhrUploadEnd
  \/ XhrLoad
  \/ XhrError
  \/ XhrTimeout
  \/ UploadFetchSettle

UploadSpec == UploadInit /\ [][UploadNext]_vars

\* ------------------------------------------------- requests and headers
\* get / post / put / delete: each is request(url, { method, ...options }).
Methods == {"get", "post", "put", "delete"}

Authorization == [h \in {"Authorization"} |-> "Bearer t"]
Accept == [h \in {"Accept"} |-> "text/csv"]

\* Options given to configure, none of which sets a Content-Type header.
HeaderConfigOptions ==
  {[headers |-> Authorization], [baseUrl |-> "/api"], [retryAttempts |-> 1]}

\* Options given to one call, none of which sets a Content-Type header.
CallOptions == {NoOptions, [headers |-> Accept]}

\* ApiHelper.get / post / put / delete with per-call options: runs up to the
\* first `await fetch`.
Call(method, options) ==
  /\ Idle
  /\ Set(Request(Fresh(method, NoKey, 0), options))
  /\ UNCHANGED <<config, now, ext>>

HeaderNext ==
  \/ \E m \in Methods, o \in CallOptions : Call(m, o)
  \/ \E o \in HeaderConfigOptions : Idle /\ Configure(o)
  \/ \E s \in Statuses, ct \in CTypes : FetchResolve(s, ct)
  \/ FetchReject
  \/ TimerFire
  \/ \E more \in BOOLEAN : StaleTimerFire(more)
  \/ \E b \in Bodies : BodyArrive(b)
  \/ \E b \in Bodies : ErrBodyArrive(b)
  \/ BodyFail
  \/ SleepEnd
  \/ Return

HeaderSpec == Init /\ [][HeaderNext]_vars

\* ---------------------------------------- buildQueryString used directly
Names == {"a", "b", "c"}
QueryValues ==
  {Value("num", "1"), Value("num", "0"), Value("bool", "false"), Value("str", ""),
   Value("null", ""), Value("undefined", ""),
   ArrayValue(<<"2", "3">>), ArrayValue(<<>>), ArrayValue(<<"">>)}

\* The params objects: every key once, in iteration order.
ParamLists ==
  {ps \in UNION {[1..n -> {Param(nm, v) : nm \in Names, v \in QueryValues}] :
                   n \in 0..MaxParams} :
     \A i, j \in 1..Len(ps) : i # j => ps[i].name # ps[j].name}

QueryInit ==
  /\ InitApi /\ server = NoServer
  /\ query \in {[NoQuery EXCEPT !.params = ps] : ps \in ParamLists}

\* buildQueryString(params)
BuildQuery ==
  /\ ~query.built
  /\ query' = [query EXCEPT !.out = BuildQueryString(query.params), !.built = TRUE]
  /\ UNCHANGED <<api, store, now, cacheOp, lastSet, up, side>>

QueryNext == BuildQuery

QuerySpec == QueryInit /\ [][QueryNext]_vars

\* ------------------------------------------------------- StorageUtils
\* Values given to StorageUtils: a string, an object; and what local.set
\* stores for one: { value, timestamp, expiry? }.
StoredValues == {Value("str", "wheat"), Value("obj", "data=value")}
Item(value, timestamp) ==
  [t |-> "obj", value |-> value, timestamp |-> timestamp]
ItemWithExpiry(value, timestamp, expiry) ==
  [t |-> "obj", value |-> value, timestamp |-> timestamp, expiry |-> expiry]

\* JSON.stringify(v); a text that is no JSON has json FALSE.
JsonText(v) == [json |-> TRUE, of |-> v]
\* `try { return JSON.parse(item) } catch { return item }`
ParseOrRaw(text) == IF text.json THEN text.of ELSE Value("str", text.of)

DayMs == 86400000
ExpiryDays == {0, 7}
\* the keys a caller of local.set and local.get uses itself
StorageKeys == {"key", "agritech_farm_data"}
RecentKey == "agritech_recent_searches"

\* StorageUtils.local.get(key, defaultValue) on storage ls
LocalGet(ls, key, defaultValue) ==
  IF key \notin DOMAIN ls THEN defaultValue ELSE ParseOrRaw(ls[key])

\* StorageUtils.local.set(key, value, expiryDays) on storage ls at time t;
\* full: localStorage.setItem throws (the quota is exceeded).
LocalSet(ls, key, value, expiryDays, t, full) ==
  LET item == IF expiryDays # 0
              THEN ItemWithExpiry(value, t, t + expiryDays * DayMs)
              ELSE Item(value, t)
  IN IF full THEN [ret |-> FALSE, storage |-> ls]
     ELSE [ret |-> TRUE,
           storage |-> [k \in DOMAIN ls \cup {key} |->
                          IF k = key THEN JsonText(item) ELSE ls[k]]]

\* Array.prototype.filter(s => s !== search)
RECURSIVE Without(_, _)
Without(list, search) ==
  IF list = <<>> THEN <<>>
  ELSE IF Head(list) = search THEN Without(Tail(list), search)
  ELSE <<Head(list)>> \o Without(Tail(list), search)

\* Array.prototype.slice(0, n), n >= 0
Slice(list, n) == SubSeq(list, 1, IF n < Len(list) THEN n ELSE Len(list))

storageRest == <<api, store, now, cacheOp, lastSet, query, up, modals, calls, race, origin>>

\* StorageUtils.local.set(key, value, expiryDays)
LocalSetOp(key, value, expiryDays, full) ==
  /\ LET r == LocalSet(localStorage, key, value, expiryDays, now, full)
     IN /\ localStorage' = r.storage
        /\ lsOp' = [name |-> "set", key |-> key, ret |-> r.ret]
        /\ lsSet' = IF r.ret
                    THEN [k \in DOMAIN lsSet \cup {key} |->
                            IF k = key THEN [value |-> value, days |-> expiryDays, at |-> now]
                            ELSE lsSet[k]]
                    ELSE lsSet
  /\ UNCHANGED <<storageRest, recent>>

\* StorageUtils.local.get(key, defaultValue)
LocalGetOp(key, defaultValue) ==
  /\ lsOp' = [name |-> "get", key |-> key, at |-> now,
              ret |-> LocalGet(localStorage, key, defaultValue)]
  /\ UNCHANGED <<storageRest, localStorage, lsSet, recent>>

\* StorageUtils.agri.addRecentSearch(search, maxItems): `searches.filter`
\* throws a TypeError when searches is not an array.
AddRecentSearch(search, maxItems, full) ==
  /\ LET searches == LocalGet(localStorage, RecentKey, ArrayValue(<<>>))
     IN IF searches.t # "arr"
        THEN /\ lsOp' = [name |-> "addRecentSearch", threw |-> TRUE]
             /\ UNCHANGED <<localStorage, lsSet>>
        ELSE LET filtered == <<search>> \o Without(searches.a, search)
                 value == ArrayValue(Slice(filtered, maxItems))
                 r == LocalSet(localStorage, RecentKey, value, 0, now, full)
             IN /\ localStorage' = r.storage
                /\ lsOp' = [name |-> "addRecentSearch", threw |-> FALSE]
                /\ lsSet' = IF r.ret
                            THEN [k \in DOMAIN lsSet \cup {RecentKey} |->
                                    IF k = RecentKey
                                    THEN [value |-> value, days |-> 0, at |-> now]
                                    ELSE lsSet[k]]
                            ELSE lsSet
  /\ recent' = Slice(<<search>> \o Without(recent, search), maxItems)
  /\ UNCHANGED storageRest

\* StorageUtils.agri.getRecentSearches()
GetRecentSearches ==
  /\ lsOp' = [name |-> "getRecentSearches",
              ret |-> LocalGet(localStorage, RecentKey, ArrayValue(<<>>))]
  /\ UNCHANGED <<storageRest, localStorage, lsSet, recent>>

\* Time passes between the uses of the storage.
StorageTick ==
  /\ now < MaxNow
  /\ now' = now + 1
  /\ UNCHANGED <<api, store, ext>>

StorageNext ==
  \/ \E k \in StorageKeys, v \in StoredValues, d \in ExpiryDays, full \in BOOLEAN :
       LocalSetOp(k, v, d, full)
  \/ \E k \in StorageKeys : LocalGetOp(k, Value("null", ""))
  \/ \E term \in {"rice", "wheat"}, n \in 1..2 : AddRecentSearch(term, n, FALSE)
  \/ GetRecentSearches
  \/ StorageTick

StorageSpec == Init /\ [][StorageNext]_vars

\* ------------------------------------------------------- UIUtils.modal
MaxModals == 2
MaxCloses == 2
Titles == {"Alert", ""}

\* UIUtils.modal.show for an alert: the overlay in the document, with the OK
\* button, the overlay click handler (closable defaults to true) and, when the
\* title is not empty, the header close button.
Shown(title) ==
  [title |-> title, inDocument |-> TRUE, closing |-> FALSE, timers |-> 0,
   resolved |-> FALSE]

\* UIUtils.modal.close(overlay): class `closing`, removal after 300 ms
Close(m) == [m EXCEPT !.closing = TRUE, !.timers = @ + 1]

\* the OK action: handler, then close as closeOnClick is not false
OkClicked(m) == Close([m EXCEPT !.resolved = TRUE])

\* the header close button and the overlay: `if (onClose) onClose()` with the
\* onClose of alert, which passes none, then close
Dismissed(m) == Close(m)

modalRest == <<api, store, now, cacheOp, lastSet, query, up,
               localStorage, lsOp, lsSet, recent, calls, race, origin>>

\* UIUtils.modal.alert(message, title)
Alert(title) ==
  /\ Len(modals) < MaxModals
  /\ modals' = Append(modals, Shown(title))
  /\ UNCHANGED modalRest

\* The user clicks OK; the button is there as long as the overlay is.
ClickOk(i) ==
  /\ modals[i].inDocument
  /\ modals[i].timers < MaxCloses
  /\ modals' = [modals EXCEPT ![i] = OkClicked(@)]
  /\ UNCHANGED modalRest

\* The user clicks the close button of the header.
ClickClose(i) ==
  /\ modals[i].inDocument
  /\ modals[i].title # ""
  /\ modals[i].timers < MaxCloses
  /\ modals' = [modals EXCEPT ![i] = Dismissed(@)]
  /\ UNCHANGED modalRest

\* The user clicks the overlay outside the dialog.
ClickOverlay(i) ==
  /\ modals[i].inDocument
  /\ modals[i].timers < MaxCloses
  /\ modals' = [modals EXCEPT ![i] = Dismissed(@)]
  /\ UNCHANGED modalRest

\* A timer of close fires: overlay.remove()
CloseTimer(i) ==
  /\ modals[i].timers > 0
  /\ modals' = [modals EXCEPT ![i] = [@ EXCEPT !.inDocument = FALSE, !.timers = @ - 1]]
  /\ UNCHANGED modalRest

ModalNext ==
  \/ \E title \in Titles : Alert(title)
  \/ \E i \in DOMAIN modals : ClickOk(i)
  \/ \E i \in DOMAIN modals : ClickClose(i)
  \/ \E i \in DOMAIN modals : ClickOverlay(i)
  \/ \E i \in DOMAIN modals : CloseTimer(i)

ModalSpec == Init /\ [][ModalNext]_vars

\* ------------------------------------------------- calls under way together
\* Each call has its own locals; ApiHelper.config and the cache are shared.
Being(i) == [calls[i] EXCEPT !.store = store]
Underway(i) == calls[i].pc \notin {"idle", "done"}

\* What the call wrote to the cache when it ended, if it did.
Wrote(old, n) ==
  /\ old.pc # "done" /\ n.pc = "done"
  /\ n.kind = "cachedGet" /\ n.fetches >= 1
  /\ StoreAfterGet(<<>>, n.cacheKey, n.result, n.ttl, now) # <<>>

\* Call i moves to n0.
Become(i, n0) ==
  LET old == calls[i]
      n == IF n0.fetches > old.fetches
           THEN [n0 EXCEPT !.timeouts = Append(@, config.timeout)]
           ELSE n0
  IN /\ calls' = [j \in Slots |->
                   IF j = i THEN [n EXCEPT !.store = <<>>]
                   ELSE IF Wrote(old, n) /\ ~n.overClear /\ calls[j].cacheKey = n.cacheKey
                   THEN [calls[j] EXCEPT !.overClear = FALSE]
                   ELSE calls[j]]
     /\ store' = n.store
     /\ race' = IF old.pc # "done" /\ n.pc = "done"
                THEN Append(race, [call |-> i, result |-> n.result, at |-> now,
                                   ttl |-> n.ttl, wrote |-> Wrote(old, n)])
                ELSE race
     /\ origin' = [k \in DOMAIN n.store |->
                     IF k = n.cacheKey /\ Wrote(old, n)
                     THEN [fullUrl |-> n.fullUrl, overClear |-> n.overClear]
                     ELSE origin[k]]

callRest2 == <<now, api, cacheOp, lastSet, query, up,
               localStorage, lsOp, lsSet, recent, modals>>

\* ApiHelper.cachedGet(url, params, ttl) as call i
CachedGetOf(i, url, params, t) ==
  /\ calls[i].pc = "idle"
  /\ LET key == CacheKey(url, params)
         g   == CacheGet(store, key, now)
         f   == [NoCall EXCEPT
                   !.kind = "cachedGet", !.cacheKey = key, !.ttl = t,
                   !.storeAtCall = store, !.store = g.store,
                   !.found = IF key \in DOMAIN store /\ now <= store[key].expiry
                             THEN [hit |-> TRUE, data |-> store[key].data]
                             ELSE NoFound,
                   !.fullUrl = FullUrl(config, url), !.atStart = config]
     IN IF CacheHit(g.ret)
        THEN Become(i, [f EXCEPT !.pc = "done", !.result = Returned(g.ret),
                                 !.servedFrom = origin[key].fullUrl])
        ELSE Become(i, Request([f EXCEPT !.overlapped =
                                  \E j \in Slots \ {i} :
                                    Underway(j) /\ calls[j].cacheKey = key],
                               NoOptions))
  /\ UNCHANGED callRest2

FetchResolveOf(i, status, ctype) ==
  /\ calls[i].pc = "fetching"
  /\ Become(i, [Being(i) EXCEPT !.armed = FALSE,
                                !.resp = Resp(status, ctype, NoBody),
                                !.pc = IF Ok(status) THEN "body" ELSE "errbody"])
  /\ UNCHANGED callRest2

FetchRejectOf(i) ==
  /\ calls[i].pc = "fetching"
  /\ Become(i, Catch([Being(i) EXCEPT !.inflight = @ \ {calls[i].attempt},
                                      !.armed = FALSE,
                                      !.stale = @ \/ calls[i].armed],
                     NetworkFailure, "network"))
  /\ UNCHANGED callRest2

TimerFireOf(i) ==
  /\ calls[i].pc = "fetching" /\ calls[i].armed
  /\ Become(i, Catch([Being(i) EXCEPT !.inflight = @ \ {calls[i].attempt},
                                      !.armed = FALSE],
                     AbortError, "timeout"))
  /\ UNCHANGED callRest2

BodyArriveOf(i, body) ==
  /\ calls[i].pc = "body"
  /\ LET r  == ParseResponse(calls[i].resp.ctype, body)
         c0 == [Being(i) EXCEPT !.inflight = @ \ {calls[i].attempt},
                                !.resp.body = body]
     IN IF r.tag = "ok"
        THEN Become(i, Finish(c0, r))
        ELSE Become(i, Catch(c0, r.error, "decode"))
  /\ UNCHANGED callRest2

ErrBodyArriveOf(i, body) ==
  /\ calls[i].pc = "errbody"
  /\ LET d  == ParseErrorResponse(body)
         e  == IF d.tag = "ok" THEN ApiError("HTTP error", calls[i].resp.status, d.data)
               ELSE d.error
         c0 == [Being(i) EXCEPT !.inflight = @ \ {calls[i].attempt},
                                !.resp.body = body]
     IN Become(i, Catch(c0, e, ErrorClass(calls[i].resp.status)))
  /\ UNCHANGED callRest2

BodyFailOf(i) ==
  /\ calls[i].pc \in {"body", "errbody"}
  /\ LET e == IF calls[i].pc = "errbody" \/ calls[i].resp.ctype = ""
              THEN BodyUsedError ELSE NetworkFailure
     IN Become(i, Catch([Being(i) EXCEPT !.inflight = @ \ {calls[i].attempt}],
                        e, "network"))
  /\ UNCHANGED callRest2

SleepEndOf(i) ==
  /\ calls[i].pc = "sleeping"
  /\ Become(i, Loop(Being(i), calls[i].attempt + 1))
  /\ UNCHANGED callRest2

\* ApiHelper.cache.clear(prefix), whatever is under way
ClearAnyTime(prefix) ==
  /\ store' = CacheClear(store, prefix)
  /\ calls' = [i \in Slots |->
                 IF Underway(i) /\ calls[i].cacheKey \in DOMAIN store \ DOMAIN store'
                 THEN [calls[i] EXCEPT !.overClear = TRUE]
                 ELSE calls[i]]
  /\ origin' = Restrict(origin, DOMAIN store')
  /\ UNCHANGED <<callRest2, race>>

\* Two calls of cachedGet, each made once, under the default configuration;
\* they are numbered in the order they start.
OverlapStatuses == {200, 503}
OverlapCTypes == {"application/json"}
OverlapBodies == {"{\"price\":42}", "0"}
InOrder(i) == \A j \in Slots : j < i => calls[j].pc # "idle"

OverlapNext ==
  \/ \E i \in Slots, u \in Urls, p \in ParamChoices, t \in Ttls :
       InOrder(i) /\ CachedGetOf(i, u, p, t)
  \/ \E i \in Slots, s \in OverlapStatuses, ct \in OverlapCTypes : FetchResolveOf(i, s, ct)
  \/ \E i \in Slots : FetchRejectOf(i)
  \/ \E i \in Slots : TimerFireOf(i)
  \/ \E i \in Slots, b \in OverlapBodies : BodyArriveOf(i, b)
  \/ \E i \in Slots, b \in OverlapBodies : ErrBodyArriveOf(i, b)
  \/ \E i \in Slots : BodyFailOf(i)
  \/ \E i \in Slots : SleepEndOf(i)
  \/ Tick

OverlapSpec == Init /\ [][OverlapNext]_vars

\* Two calls of cachedGet, each made once, while the caller configures and
\* clears the cache.
OtherBase == "https://staging.example"
RaceOptions == {[baseUrl |-> OtherBase]}

RaceNext ==
  \/ \E i \in Slots, u \in Urls, p \in ParamChoices, t \in Ttls :
       InOrder(i) /\ CachedGetOf(i, u, p, t)
  \/ \E i \in Slots, s \in OverlapStatuses, ct \in OverlapCTypes : FetchResolveOf(i, s, ct)
  \/ \E i \in Slots : FetchRejectOf(i)
  \/ \E i \in Slots : TimerFireOf(i)
  \/ \E i \in Slots, b \in OverlapBodies : BodyArriveOf(i, b)
  \/ \E i \in Slots, b \in OverlapBodies : ErrBodyArriveOf(i, b)
  \/ \E i \in Slots : BodyFailOf(i)
  \/ \E i \in Slots : SleepEndOf(i)
  \/ \E o \in RaceOptions : Configure(o)
  \/ ClearAnyTime(Prefix(FALSE, <<>>))

RaceSpec == Init /\ [][RaceNext]_vars

\* One call of cachedGet while the caller changes the retry policy.
PolicyOptions ==
  {[retryAttempts |-> 2, retryDelay |-> ShortDelay, timeout |-> 5000],
   [retryAttempts |-> MaxRetry]}

PolicyNext ==
  \/ \E u \in Urls, p \in ParamChoices, t \in Ttls : CachedGetOf(1, u, p, t)
  \/ \E s \in Statuses, ct \in CTypes : FetchResolveOf(1, s, ct)
  \/ FetchRejectOf(1)
  \/ TimerFireOf(1)
  \/ \E b \in Bodies : BodyArriveOf(1, b)
  \/ \E b \in Bodies : ErrBodyArriveOf(1, b)
  \/ BodyFailOf(1)
  \/ SleepEndOf(1)
  \/ \E o \in PolicyOptions : Configure(o)

PolicySpec == Init /\ [][PolicyNext]_vars

\* ------------------------------------------- one call after another, live
\* Calls of get, one at a time, under the default configuration.
LiveNext ==
  \/ \E u \in Urls, p \in ParamChoices : Get(u, p)
  \/ \E s \in Statuses, ct \in CTypes : FetchResolve(s, ct)
  \/ FetchReject
  \/ TimerFire
  \/ \E more \in BOOLEAN : StaleTimerFire(more)
  \/ \E b \in Bodies : BodyArrive(b)
  \/ \E b \in Bodies : ErrBodyArrive(b)
  \/ BodyFail
  \/ SleepEnd
  \/ Return

\* Every armed timer fires unless it is cleared first, and every backoff
\* sleep ends: setTimeout callbacks run.  The remote side owes nothing.
LiveSpec ==
  /\ Init /\ [][LiveNext]_vars
  /\ WF_vars(TimerFire)
  /\ WF_vars(\E more \in BOOLEAN : StaleTimerFire(more))
  /\ WF_vars(SleepEnd)

\* A caller that configures between its calls and issues them one at a time.
Next ==
  \/ \E u \in Urls, p \in ParamChoices : Get(u, p)
  \/ \E u \in Urls, p \in ParamChoices, t \in Ttls : CachedGet(u, p, t)
  \/ \E s \in Statuses, ct \in CTypes : FetchResolve(s, ct)
  \/ FetchReject
  \/ TimerFire
  \/ \E more \in BOOLEAN : StaleTimerFire(more)
  \/ \E b \in Bodies : BodyArrive(b)
  \/ \E b \in Bodies : ErrBodyArrive(b)
  \/ BodyFail
  \/ SleepEnd
  \/ Return
  \/ \E o \in ConfigOptions : Idle /\ Configure(o)
  \/ Tick

Spec == Init /\ [][Next]_vars

TypeOK ==
  /\ pc \in {"idle", "fetching", "body", "errbody", "sleeping", "done"}
  /\ kind \in {"none", "cachedGet"} \cup Methods
  /\ now \in 0..MaxNow
  /\ fetches \in Nat
  /\ result.tag \in {"none", "ok", "err"}

\* ------------------------------------------------------------ properties
N == config.retryAttempts
Failed == pc = "done" /\ result.tag = "err"
Succeeded == pc = "done" /\ result.tag = "ok" /\ fetches >= 1
GenericError == ApiError("Request failed after retries", DefaultErrorStatus, NullPayload)
TimeoutError == ApiError("Request timeout", TimeoutStatus, NullPayload)
BodyArrived == resp.body # NoBody

\* What a response body is as error data: the structured value, or the text.
BodyAsData(body) ==
  IF JsonValid(body) THEN JsonParse(body) ELSE Payload("string", 0, body)

\* What the decoder owes for a body of a declared kind.
Decoded(ctype, body) ==
  CASE ctype = "text/plain" -> Payload("string", 0, body)
    [] ctype = "image/png"  -> Payload("blob", 0, body)
    [] OTHER                -> JsonParse(body)

\* C1: with retryAttempts = N >= 1, a call never issues more than N attempts,
\* and a call that failed with every attempt ending in a server error or a
\* network failure has issued exactly N.
C1_ExactlyNAttempts ==
  N >= 1 =>
    /\ fetches <= N
    /\ (Failed /\ retryableOnly) => fetches = N

C1_Witness ==
  /\ Failed /\ retryableOnly /\ N = 3 /\ fetches = 3
  /\ thrown = ApiError("HTTP error", 503, JsonParse("{\"price\":42}"))

\* C2: a 4xx response on the first attempt ends the call after that one
\* attempt, whatever its body, with a client error carrying the status and
\* the body.
C2_ClientErrorNotRetried ==
  (attempt = 1 /\ ErrorClass(resp.status) = "client" /\ ~Ok(resp.status) /\ BodyArrived) =>
    /\ pc = "done" /\ fetches = 1
    /\ result = Thrown(ApiError("HTTP error", resp.status, BodyAsData(resp.body)))

\* C3: once the timer of attempt k has fired on the pending fetch, the
\* attempt is cancelled, the call has failed with the 408 timeout error, and
\* neither attempt k+1 nor a sleep after attempt k exists.
C3_TimeoutIsTerminal ==
  thrown = AbortError =>
    /\ Failed /\ result.error = TimeoutError
    /\ inflight = {}
    /\ fetches = attempt /\ Len(sleeps) = attempt - 1

C3_Witness ==
  thrown = AbortError /\ attempt = 2 /\ N = 4 /\ result.error.status = TimeoutStatus

\* C4: a 2xx application/json response with a malformed body ends the call
\* with the decode error: no further attempt, no sleep.
C4_DecodeErrorNotRetried ==
  (Ok(resp.status) /\ resp.ctype = "application/json" /\ BodyArrived
     /\ ~JsonValid(resp.body)) =>
    /\ Failed /\ result.error = SyntaxError
    /\ fetches = attempt /\ Len(sleeps) = attempt - 1

\* C5: when attempts 1..k-1 ended in server or network errors and attempt k
\* succeeded, the call has returned the decoded payload of attempt k after
\* exactly k attempts, and nothing is in flight.
C5_FirstSuccessReturns ==
  (Succeeded /\ retryableOnly) =>
    /\ Ok(resp.status) /\ result.data = Decoded(resp.ctype, resp.body)
    /\ fetches = attempt /\ attempt <= N /\ Len(sleeps) = attempt - 1
    /\ inflight = {}

C5_Witness ==
  /\ Succeeded /\ retryableOnly /\ fetches = 3
  /\ result.data = JsonParse("{\"price\":42}")

C7_LastErrorSurfaced ==
  /\ (Failed /\ N >= 1 /\ fetches = N) =>
       result.error = IF thrown = AbortError THEN TimeoutError ELSE thrown
  /\ (N = 0 /\ kind # "none" /\ result.tag # "ok") =>
       (Failed /\ fetches = 0 /\ result.error = GenericError)

C7_Witness ==
  /\ Failed /\ N = 3 /\ fetches = 3 /\ ~retryableOnly
  /\ thrown = NetworkFailure /\ result.error = NetworkFailure

\* C8: at most one attempt of the call is in flight, and an attempt after the
\* first starts only from the end of the backoff sleep, with none in flight.
C8_OneAttemptInFlight ==
  /\ [](Cardinality(inflight) <= 1 /\ (pc \in {"idle", "sleeping", "done"} => inflight = {}))
  /\ [][(fetches' = fetches + 1 /\ attempt' > 1) => (pc = "sleeping" /\ inflight = {})]_vars

C8_Witness ==
  pc = "fetching" /\ attempt = 3 /\ inflight = {3} /\ Len(sleeps) = 2

\* C9 as stated: when the GET of a cachedGet has failed, the cache store is
\* as it was when cachedGet was called.
C9_StoreUnchangedOnFailure ==
  (kind = "cachedGet" /\ Failed /\ fetches >= 1) => store = storeAtCall

\* C9, amended: an entry is added or changed only by the completion of a
\* cachedGet whose GET succeeded, and it holds that GET's payload; an entry
\* is removed only by the lookup that opens a cachedGet, which removes the
\* expired entry of its own key; the step in which the GET fails leaves the
\* store as it is.
C9_CacheWrittenOnSuccessOnly ==
  [][/\ \A k \in DOMAIN store' :
          (k \notin DOMAIN store \/ store'[k] # store[k]) =>
            /\ kind' = "cachedGet" /\ pc' = "done" /\ result'.tag = "ok"
            /\ fetches' >= 1 /\ k = cacheKey' /\ store'[k].data = result'.data
     /\ \A k \in DOMAIN store \ DOMAIN store' :
          /\ pc = "idle" /\ kind' = "cachedGet" /\ k = cacheKey'
          /\ now > store[k].expiry
     /\ (pc \in {"fetching", "body", "errbody"} /\ pc' = "done" /\ result'.tag = "err")
          => store' = store]_vars

C9_Witness ==
  /\ kind = "cachedGet" /\ Failed /\ fetches = 2
  /\ thrown = ApiError("HTTP error", 404, JsonParse("0"))
  /\ DOMAIN storeAtCall # {} /\ DOMAIN store = {}

\* C10: a cachedGet made while an unexpired entry for its key is stored
\* returns the stored payload and issues no network attempt.
C10_HitIssuesNoAttempt ==
  (kind = "cachedGet" /\ found.hit) =>
    (pc = "done" /\ fetches = 0 /\ result = Returned(found.data))
\* C11: after cache.set(k, v, ttl) at time t, with no later set, removal or
\* clear of k, a cache.get(k) at a time now <= t + ttl returns v and leaves
\* the entry in place; at a time now > t + ttl it returns null and the entry
\* is gone from the store.
C11_CacheRoundTrip ==
  [][\A k \in DOMAIN lastSet :
       (cacheOp'.name = "get" /\ cacheOp'.key = k) =>
          LET w == lastSet[k]
          IN IF cacheOp'.at <= w.at + w.ttl
             THEN /\ cacheOp'.ret = w.data
                  /\ k \in DOMAIN store' /\ store'[k] = store[k]
             ELSE /\ cacheOp'.ret = NullPayload
                  /\ k \notin DOMAIN store']_vars

C11_Witness ==
  /\ cacheOp.name = "get" /\ cacheOp.key \in DOMAIN lastSet
  /\ lastSet[cacheOp.key].ttl = 1
  /\ cacheOp.at = lastSet[cacheOp.key].at + 1
  /\ cacheOp.ret = Payload("number", 0, "")

\* C12: cache.clear(prefix) removes exactly the entries whose key starts with
\* prefix and leaves every other entry as it is; cache.clear() removes all.
C12_ClearRemovesPrefixed ==
  [][cacheOp'.name = "clear" =>
       LET p == cacheOp'.prefix
       IN IF p.given
          THEN /\ DOMAIN store' = {k \in DOMAIN store : ~StartsWith(k, p.str)}
               /\ \A k \in DOMAIN store' : store'[k] = store[k]
          ELSE DOMAIN store' = {}]_vars

C12_Witness ==
  /\ cacheOp.name = "clear" /\ cacheOp.prefix = Prefix(TRUE, <<"a">>)
  /\ cacheOp.removed = {<<"a">>, <<"a", "b">>}
  /\ DOMAIN store = {<<"b", "a">>}
\* The step in which the body of the current attempt's response arrives.
BodyArrives == pc \in {"body", "errbody"} /\ resp.body = NoBody /\ resp'.body # NoBody
\* The step in which the pending fetch fails on the connection.
ConnectionFails ==
  pc = "fetching" /\ attempt \notin inflight' /\ thrown' = NetworkFailure

\* C13: an attempt answered 2xx with a decodable body is a success and ends
\* the call; one answered 400-499 is a client error and ends the call with no
\* sleep and no further attempt; one answered any other non-2xx status, or
\* failing on the connection, is followed by the backoff sleep while attempts
\* remain.
C13_StatusClassification ==
  [][/\ (BodyArrives /\ Ok(resp.status)
          /\ ParseResponse(resp.ctype, resp'.body).tag = "ok") =>
            (pc' = "done" /\ result'.tag = "ok")
     /\ (BodyArrives /\ resp.status >= 400 /\ resp.status <= 499) =>
            (pc' = "done" /\ result'.tag = "err"
               /\ fetches' = fetches /\ sleeps' = sleeps)
     /\ (BodyArrives /\ ~Ok(resp.status) /\ ~(resp.status >= 400 /\ resp.status <= 499)
          /\ attempt < N) =>
            (pc' = "sleeping" /\ Len(sleeps') = Len(sleeps) + 1)
     /\ (ConnectionFails /\ attempt < N) =>
            (pc' = "sleeping" /\ Len(sleeps') = Len(sleeps) + 1)]_vars

\* C14: a 2xx response of unknown or absent content kind whose body is not a
\* structured value ends the call with the raw body text as its payload: the
\* parse failure is not thrown and the attempt is not retried.
C14_UnknownKindFallsBackToText ==
  (Ok(resp.status) /\ resp.ctype = "" /\ BodyArrived /\ ~JsonValid(resp.body)) =>
    /\ pc = "done" /\ result = Returned(Payload("string", 0, resp.body))
    /\ fetches = attempt /\ Len(sleeps) = attempt - 1
\* The content kinds by what they declare.
Structured == {"application/json", "application/json; charset=utf-8"}
Textual == {"text/plain", "text/html; charset=utf-8", "text/csv"}
Binary == {"image/png", "image/svg+xml", "application/octet-stream"}

\* C15: parseResponse of a structured kind returns the parsed value, or fails
\* with the decode error on a malformed body; of a textual kind it returns
\* the raw text, whatever the body; of a binary kind a blob, whatever the body.
C15_DispatchOnContentKind ==
  result.tag # "none" =>
    /\ resp.ctype \in Structured =>
         result = IF JsonValid(resp.body) THEN Returned(JsonParse(resp.body))
                  ELSE Thrown(SyntaxError)
    /\ resp.ctype \in Textual => result = Returned(Payload("string", 0, resp.body))
    /\ resp.ctype \in Binary => result = Returned(Payload("blob", 0, resp.body))

C15_Witness ==
  /\ resp.ctype = "application/octet-stream" /\ resp.body = "oops"
  /\ result = Returned(Payload("blob", 0, "oops"))
\* C16: the values passed to onProgress are integers in 0..100 and never
\* decrease; the promise of the upload is settled at most once, exactly once
\* when the upload has ended; onProgress is not called after that.
C16_ProgressThenOneSignal ==
  /\ \A i \in 1..Len(xhr.progress) : xhr.progress[i].value \in 0..100
  /\ \A i \in 1..(Len(xhr.progress) - 1) :
       xhr.progress[i].value <= xhr.progress[i + 1].value
  /\ xhr.settles <= 1
  /\ xhr.pc = "done" <=> (xhr.settles = 1 /\ xhr.outcome.tag \in {"ok", "err"})
  /\ ~xhr.late

C16_Witness ==
  /\ xhr.pc = "done" /\ xhr.outcome = Returned(Payload("string", 0, "oops"))
  /\ Len(xhr.progress) = 3
  /\ xhr.progress[1].value = 0 /\ xhr.progress[2].value = 13
  /\ xhr.progress[3].value = 100

\* C17 as stated: the percentage of every progress event is
\* floor(bytesSent / totalBytes * 100), and 100 only for bytesSent = totalBytes.
C17_PercentIsFloor ==
  \A i \in 1..Len(xhr.progress) :
    LET p == xhr.progress[i]
    IN (p.total > 0 /\ p.loaded <= p.total) =>
         /\ p.value = (100 * p.loaded) \div p.total
         /\ p.value = 100 => p.loaded = p.total

\* C17, amended: the percentage of every progress event is an integer of
\* 0..100 within one half of bytesSent / totalBytes * 100 (the nearest integer,
\* not the floor), so 100 is reported from 99.5 percent on.
C17_PercentIsNearest ==
  \A i \in 1..Len(xhr.progress) :
    LET p == xhr.progress[i]
    IN (p.total > 0 /\ p.loaded <= p.total) =>
         /\ p.value \in 0..100
         /\ 2 * p.value * p.total - 200 * p.loaded \in (0 - p.total)..p.total
         /\ p.value = 100 => 200 * p.loaded >= 199 * p.total

C17_Witness ==
  /\ xhr.pc = "uploading" /\ Len(xhr.progress) = 2
  /\ xhr.progress[1] = [loaded |-> 29, total |-> 200, value |-> 14]
  /\ xhr.progress[2] = [loaded |-> 199, total |-> 200, value |-> 100]

\* C18: for the same behaviour of the server, the upload without a callback
\* and the upload with one end alike: the same payload or the same error.
C18_UploadPathsEquivalent ==
  (xhr.pc = "done" /\ plain.pc = "done") => xhr.outcome = plain.outcome
\* C19: configure is never given a Content-Type header and neither is a
\* call; every attempt of every call carries Content-Type: application/json.
C19_ContentTypeByDefault ==
  (kind \in Methods /\ fetches >= 1) =>
    /\ "Content-Type" \in DOMAIN headers
    /\ headers["Content-Type"] = "application/json"
\* The number of entries a value owes: none for null, undefined and '', one
\* for each element of an array, one for any other value.
Owed(v) ==
  IF v.t \in {"null", "undefined"} \/ (v.t = "str" /\ v.s = "") THEN 0
  ELSE IF v.t = "arr" THEN Len(v.a)
  ELSE 1

\* The number of entries the first i parameters owe.
RECURSIVE OwedUpTo(_, _)
OwedUpTo(ps, i) == IF i = 0 THEN 0 ELSE OwedUpTo(ps, i - 1) + Owed(ps[i].value)

\* C20: the entries produced are, parameter by parameter in the order of the
\* input keys, name=value for a scalar, name=element for each element of an
\* array in turn, and nothing for null, undefined and ''; there are no others.
C20_QueryEntriesInOrder ==
  query.built =>
    LET ps == query.params
        out == query.out
    IN /\ Len(out) = OwedUpTo(ps, Len(ps))
       /\ \A i \in 1..Len(ps) :
            LET v == ps[i].value
                off == OwedUpTo(ps, i - 1)
            IN IF v.t = "arr"
               THEN \A k \in 1..Len(v.a) : out[off + k] = <<ps[i].name, v.a[k]>>
               ELSE Owed(v) = 1 => out[off + 1] = <<ps[i].name, v.s>>

C20_Witness ==
  /\ query.built
  /\ query.params = <<Param("a", Value("num", "1")), Param("b", Value("null", "")),
                      Param("c", ArrayValue(<<"2", "3">>))>>
  /\ query.out = <<<<"a", "1">>, <<"c", "2">>, <<"c", "3">>>>
\* C21: each backoff delay of a call is at least twice the delay before it.
C21_BackoffAtLeastDoubles ==
  \A i \in 2..Len(sleeps) : sleeps[i] >= 2 * sleeps[i - 1]

\* C26: no timer armed by an attempt that has ended is still pending.
C26_NoTimerOutlivesItsAttempt ==
  ~stale

\* C27: with the timers firing and the sleeps ending, a call that has started
\* ends: it returns a payload or fails, having issued at most retryAttempts
\* attempts.
C27_CallTerminates ==
  (pc \in {"fetching", "body", "errbody", "sleeping"}) ~> (pc = "done" /\ fetches <= N)
\* C22: a local.get of a key made before the expiry of the local.set that
\* last returned true for it returns the value that was set.
C22_LocalRoundTrip ==
  (lsOp.name = "get" /\ lsOp.key \in DOMAIN lsSet) =>
    LET w == lsSet[lsOp.key]
    IN (w.days = 0 \/ lsOp.at <= w.at + w.days * DayMs) => lsOp.ret = w.value

\* C28: starting from empty storage, no addRecentSearch throws, and
\* getRecentSearches returns the distinct terms added, latest first, cut to
\* maxItems.
C28_RecentSearches ==
  /\ lsOp.name = "addRecentSearch" => ~lsOp.threw
  /\ lsOp.name = "getRecentSearches" => lsOp.ret = ArrayValue(recent)
\* C23: once an alert is dismissed and gone from the document, whichever
\* way it was dismissed, its promise has resolved.
C23_DismissedAlertResolves ==
  \A i \in DOMAIN modals :
    (~modals[i].inDocument /\ modals[i].timers = 0) => modals[i].resolved
\* C24: when the second cachedGet started on a miss while the first, for the
\* same key, was under way, and both have ended: each has called fetch, and
\* the cache holds for the key what the call that wrote last wrote, expiring
\* at the time of that write plus its ttl (nothing when neither succeeded).
IsWrite(r) == r.wrote
C24_LastWriteWins ==
  (calls[2].overlapped /\ \A i \in Slots : calls[i].pc = "done") =>
    LET key == calls[2].cacheKey
        writes == SelectSeq(race, IsWrite)
    IN /\ \A i \in Slots : calls[i].fetches >= 1
       /\ writes = <<>> => key \notin DOMAIN store
       /\ writes # <<>> =>
            LET w == writes[Len(writes)]
            IN /\ key \in DOMAIN store
               /\ store[key] = Entry(w.result.data, w.at + w.ttl)
C24_Witness ==
  /\ calls[2].overlapped /\ \A i \in Slots : calls[i].pc = "done"
  /\ Len(race) = 2 /\ race[1].wrote /\ race[2].wrote
  /\ race[1].result.data # race[2].result.data
  /\ race[1].at < race[2].at
\* C25: every attempt of a call uses the headers, the timeout, the attempt
\* limit and the backoff base in force when the call started.
C25_PolicyFixedForTheCall ==
  \A i \in Slots :
    LET c == calls[i]
    IN c.fetches >= 1 =>
         /\ c.headers = RequestHeaders(c.atStart, NoOptions)
         /\ \A k \in DOMAIN c.timeouts : c.timeouts[k] = c.atStart.timeout
         /\ c.fetches <= c.atStart.retryAttempts
         /\ \A k \in DOMAIN c.sleeps : c.sleeps[k] = BackoffDelay(c.atStart, k)

\* C29: a payload that cachedGet returns from the cache was fetched from the
\* url the call resolves to.
C29_ServedFromSameResolvedUrl ==
  \A i \in Slots :
    (calls[i].kind = "cachedGet" /\ calls[i].pc = "done" /\ calls[i].fetches = 0)
      => calls[i].servedFrom = calls[i].fullUrl

\* C30: no entry of the cache was written by a cachedGet that was under way
\* when cache.clear removed the entry of its key, unless a cachedGet made
\* after the clear has written the key since.
C30_ClearedStaysCleared ==
  \A k \in DOMAIN store : ~origin[k].overClear
====
